---- MODULE Spec2Model ----
(***************************************************************************)
(* The persistent player-record store of src/src/player_records.rs:        *)
(* PlayerRecords (a map SteamID -> PlayerRecord bound to a file path) with  *)
(* load_or_create, load_from, save, save_ok, set_path, update_name, the     *)
(* map access it derefs to, and PlayerRecord::is_empty.                     *)
(*                                                                         *)
(* A file is modelled by what std::fs and serde_json make of it: it is      *)
(* absent, unreadable, not UTF-8, text that is no JSON, or text that is a   *)
(* JSON document (a tree).  Memory and file use different representations   *)
(* (enum discriminant / variant name, integer time / rendered time, SteamID *)
(* / map key string), converted by Serialize* and Deserialize*.             *)
(***************************************************************************)
EXTENDS Integers, Sequences, FiniteSets, TLC

VARIABLES
    playerlist,   \* args.playerlist: <<>> is None, <<p>> is Some(p)
    config_dir,   \* Settings::locate_config_directory(): <<>> is Err, <<d>> is Ok(d)
    fs,           \* the file system: path -> file
    phase,        \* "none": no store yet, "live": the host holds a store, "aborted": panicked
    path,         \* PlayerRecords.path of the host's store
    records,      \* PlayerRecords.records of the host's store
    now,          \* the clock Utc::now() reads; every call takes one unit of time
    ret           \* the last call and what it returned

vars == <<playerlist, config_dir, fs, phase, path, records, now, ret>>

\* ------------------------------------------------------------------ bounds
MaxId == 2        \* SteamIDs are 1..MaxId
MaxClock == 3     \* the clock runs 0..MaxClock: a session is MaxClock calls

Ids == 1..MaxId
Names == {"alpha", "beta"}

\* ------------------------------------------------------------------ Verdict
Player == 0
Bot == 1
Suspicious == 2
Cheater == 3
Trusted == 4
Verdicts == {Player, Bot, Suspicious, Cheater, Trusted}

\* #[derive(Serialize, Deserialize)] on a unit-variant enum: the variant name
VariantNames == <<"Player", "Bot", "Suspicious", "Cheater", "Trusted">>

SerializeVerdict(v) == VariantNames[v + 1]

IsVariantName(s) == \E i \in 1..Len(VariantNames) : VariantNames[i] = s

DeserializeVerdict(s) == (CHOOSE i \in 1..Len(VariantNames) : VariantNames[i] = s) - 1

\* ------------------------------------------------------------------ serde_json::Value
\* A value is its kind and, for strings, arrays and objects, its length.
Value(kind, len) == [kind |-> kind, len |-> len]
Null == Value("Null", 0)
EmptyObject == Value("Object", 0)
CustomValues ==
    {Null, Value("Bool", 0), Value("Number", 0)}
    \cup {Value(k, n) : k \in {"String", "Array", "Object"}, n \in 0..1}

is_null(v) == v.kind = "Null"

default_custom_data == EmptyObject

\* ------------------------------------------------------------------ PlayerRecord
Record(c, v, n, m, cr) ==
    [custom_data |-> c, verdict |-> v, previous_names |-> n, modified |-> m, created |-> cr]

\* impl Default for PlayerRecord, at clock t
DefaultRecord(t) == Record(default_custom_data, Player, <<>>, t, t)

\* mutant: the empty string is not counted as empty
is_empty_NoString(r) ==
    r.verdict = Player
    /\ (\/ is_null(r.custom_data)
        \/ (r.custom_data.kind = "Object" /\ r.custom_data.len = 0)
        \/ (r.custom_data.kind = "Array" /\ r.custom_data.len = 0))

is_empty(r) ==
    r.verdict = Player
    /\ (\/ is_null(r.custom_data)
        \/ (r.custom_data.kind = "Object" /\ r.custom_data.len = 0)
        \/ (r.custom_data.kind = "Array" /\ r.custom_data.len = 0)
        \/ (r.custom_data.kind = "String" /\ r.custom_data.len = 0))

\* ------------------------------------------------------------------ files
Fields == {"custom_data", "verdict", "previous_names", "modified", "created"}

Absent == [kind |-> "absent", json |-> <<>>]       \* no such file
Denied == [kind |-> "denied", json |-> <<>>]       \* exists; open fails with PermissionDenied
NotUtf8 == [kind |-> "bytes", json |-> <<>>]       \* exists; its bytes are not UTF-8
NotJson == [kind |-> "text", json |-> <<>>]        \* text that is no JSON document
Json(root) == [kind |-> "text", json |-> <<root>>] \* text that is the JSON document root

\* chrono's Serialize / Deserialize of DateTime<Utc>: RFC 3339 text
SerializeDate(t) == ToString(t)
IsDate(s) == \E t \in 0..MaxClock : ToString(t) = s
DeserializeDate(s) == CHOOSE t \in 0..MaxClock : ToString(t) = s

\* SteamID as a JSON map key
SerializeId(i) == ToString(i)
IsId(k) == \E i \in Ids : ToString(i) = k
DeserializeId(k) == CHOOSE i \in Ids : ToString(i) = k

\* mutant: previous_names is written empty, as if the field were skipped
SerializeRecord_NoNames(r) ==
    [custom_data |-> r.custom_data,
     verdict |-> SerializeVerdict(r.verdict),
     previous_names |-> <<>>,
     modified |-> SerializeDate(r.modified),
     created |-> SerializeDate(r.created)]

\* #[derive(Serialize)] for PlayerRecord: every field is written
SerializeRecord(r) ==
    [custom_data |-> r.custom_data,
     verdict |-> SerializeVerdict(r.verdict),
     previous_names |-> r.previous_names,
     modified |-> SerializeDate(r.modified),
     created |-> SerializeDate(r.created)]

\* mutant: records that are is_empty are pruned when the store is written
SerializeStore_SkipEmpty(recs) ==
    [records |-> [k \in {SerializeId(i) : i \in {j \in DOMAIN recs : ~is_empty(recs[j])}} |->
                    SerializeRecord(recs[DeserializeId(k)])]]

\* #[derive(Serialize)] for PlayerRecords: path is skipped, records is a JSON
\* object keyed by SteamID
SerializeStore(recs) ==
    [records |-> [k \in {SerializeId(i) : i \in DOMAIN recs} |->
                    SerializeRecord(recs[DeserializeId(k)])]]

\* a record object of a file parses: each field it has is of its type
RecordParses(o) ==
    /\ DOMAIN o \subseteq Fields
    /\ "verdict" \in DOMAIN o => IsVariantName(o.verdict)
    /\ "modified" \in DOMAIN o => IsDate(o.modified)
    /\ "created" \in DOMAIN o => IsDate(o.created)

\* #[derive(Deserialize)] #[serde(default)] for PlayerRecord: a missing field
\* is taken from PlayerRecord::default()
DeserializeRecord(o, t) ==
    LET d == DefaultRecord(t) IN
    Record(IF "custom_data" \in DOMAIN o THEN o.custom_data ELSE d.custom_data,
           IF "verdict" \in DOMAIN o THEN DeserializeVerdict(o.verdict) ELSE d.verdict,
           IF "previous_names" \in DOMAIN o THEN o.previous_names ELSE d.previous_names,
           IF "modified" \in DOMAIN o THEN DeserializeDate(o.modified) ELSE d.modified,
           IF "created" \in DOMAIN o THEN DeserializeDate(o.created) ELSE d.created)

\* serde_json::from_str::<PlayerRecords> succeeds on this file text
StoreParses(f) ==
    /\ f.json # <<>>
    /\ "records" \in DOMAIN f.json[1]
    /\ \A k \in DOMAIN f.json[1].records :
          IsId(k) /\ RecordParses(f.json[1].records[k])

DeserializeStore(root, t) ==
    [i \in {DeserializeId(k) : k \in DOMAIN root.records} |->
        DeserializeRecord(root.records[SerializeId(i)], t)]

\* ------------------------------------------------------------------ paths
Override == "custom.json"            \* the path --playerlist gives, when given
ConfigDir == "cfg"                   \* the locator's directory, when it has one
FileName == "playerlist.json"
Join(dir, file) == dir \o "/" \o file
Paths == {Override, Join(ConfigDir, FileName), FileName}

NoRecords == [i \in {} |-> DefaultRecord(0)]

\* Result<PathBuf, ConfigFilesError> as <<>> (Err) or <<path>> (Ok)
locate_playerlist_file ==
    IF config_dir # <<>> THEN <<Join(config_dir[1], FileName)>> ELSE <<>>

\* mutant: the locator's directory is preferred to the override
playerlist_path_LocatorFirst ==
    IF locate_playerlist_file # <<>> THEN locate_playerlist_file[1]
    ELSE IF playerlist # <<>> THEN playerlist[1]
    ELSE FileName

\* load_or_create: the path it hands to load_from
playerlist_path ==
    IF playerlist # <<>> THEN playerlist[1]
    ELSE IF locate_playerlist_file # <<>> THEN locate_playerlist_file[1]
    ELSE FileName

\* ------------------------------------------------------------------ results
Ok(op, p) == [op |-> op, tag |-> "Ok", kind |-> "", path |-> p, io |-> ""]
Err(op, kind, p, io) == [op |-> op, tag |-> "Err", kind |-> kind, path |-> p, io |-> io]
Panic(op, kind, p, io) == [op |-> op, tag |-> "Panic", kind |-> kind, path |-> p, io |-> io]

\* std::fs::read_to_string(p): "" when it succeeds, else the io::ErrorKind
read_to_string(p) ==
    CASE fs[p].kind = "absent" -> "NotFound"
      [] fs[p].kind = "denied" -> "PermissionDenied"
      [] fs[p].kind = "bytes" -> "InvalidData"
      [] OTHER -> ""

\* std::fs::write(p, _): "" when it succeeds, else the io::ErrorKind
write_error(p) == IF fs[p].kind = "denied" THEN "PermissionDenied" ELSE ""

\* mutant: the pass is left out
normalize_Keep(r) == r

\* mutant: the pass resets custom_data whatever it holds
normalize_Always(r) == [r EXCEPT !.custom_data = EmptyObject]

\* the normalization pass of load_from, on one record
normalize(r) ==
    IF is_null(r.custom_data)
    THEN [r EXCEPT !.custom_data = EmptyObject]
    ELSE r

\* mutant: a parse failure is reported with the I/O kind
load_from_ParseAsIO(p, t) ==
    IF read_to_string(p) # ""
    THEN [res |-> Err("load_from", "IO", p, read_to_string(p)), path |-> "", records |-> NoRecords]
    ELSE IF ~StoreParses(fs[p])
    THEN [res |-> Err("load_from", "IO", p, "InvalidData"), path |-> "", records |-> NoRecords]
    ELSE LET parsed == DeserializeStore(fs[p].json[1], t) IN
         [res |-> Ok("load_from", p), path |-> p,
          records |-> [i \in DOMAIN parsed |-> normalize(parsed[i])]]

\* mutant: the path is not assigned, the store keeps the empty path of the skipped field
load_from_PathSkipped(p, t) ==
    IF read_to_string(p) # ""
    THEN [res |-> Err("load_from", "IO", p, read_to_string(p)), path |-> "", records |-> NoRecords]
    ELSE IF ~StoreParses(fs[p])
    THEN [res |-> Err("load_from", "Json", p, ""), path |-> "", records |-> NoRecords]
    ELSE LET parsed == DeserializeStore(fs[p].json[1], t) IN
         [res |-> Ok("load_from", p), path |-> "",
          records |-> [i \in DOMAIN parsed |-> normalize(parsed[i])]]

\* load_from(p) at clock t: what it returns, and the store when it is Ok
load_from(p, t) ==
    IF read_to_string(p) # ""
    THEN [res |-> Err("load_from", "IO", p, read_to_string(p)), path |-> "", records |-> NoRecords]
    ELSE IF ~StoreParses(fs[p])
    THEN [res |-> Err("load_from", "Json", p, ""), path |-> "", records |-> NoRecords]
    ELSE LET parsed == DeserializeStore(fs[p].json[1], t) IN
         [res |-> Ok("load_from", p), path |-> p,
          records |-> [i \in DOMAIN parsed |-> normalize(parsed[i])]]

\* update_name on one record's previous_names
contains(names, name) == \E k \in 1..Len(names) : names[k] = name

\* mutant: the name is pushed without the contains check
push_name_NoCheck(names, name) == Append(names, name)

\* mutant: a new name is put in front of the list
push_name_Front(names, name) == IF contains(names, name) THEN names ELSE <<name>> \o names

push_name(names, name) == IF contains(names, name) THEN names ELSE Append(names, name)

\* ------------------------------------------------------------------ the host
\* what a host writes into a record it inserts: verdict, custom_data, previous_names
HostEdits ==
    { <<Player, EmptyObject, <<>>>>,
      <<Cheater, Value("Object", 1), <<"alpha">>>>,
      <<Bot, Null, <<>>>>,
      <<Suspicious, Value("Array", 0), <<"beta", "alpha">>>>,
      <<Trusted, Value("String", 1), <<"alpha", "alpha">>>>,
      <<Player, Value("Array", 1), <<>>>>,
      <<Player, Value("String", 0), <<>>>>,
      <<Bot, Value("Number", 0), <<>>>>,
      <<Player, Value("Bool", 0), <<>>>> }

\* files a session may start with at the resolved path
LegacyFile ==
    Json([records |-> [k \in {SerializeId(i) : i \in Ids} |->
        IF k = SerializeId(1)
        THEN [custom_data |-> Null, verdict |-> "Cheater", previous_names |-> <<"alpha">>,
              modified |-> SerializeDate(0), created |-> SerializeDate(0)]
        ELSE [verdict |-> "Bot"]]])
BadVerdictFile ==
    Json([records |-> [k \in {SerializeId(1)} |-> [verdict |-> "cheater"]]])
NoRecordsFieldFile == Json([k \in {} |-> 0])
InitFiles == {Absent, Denied, NotUtf8, NotJson, BadVerdictFile, NoRecordsFieldFile, LegacyFile}

Init ==
    /\ playerlist \in {<<>>, <<Override>>}
    /\ config_dir \in {<<>>, <<ConfigDir>>}
    /\ \E f \in InitFiles :
          fs = [p \in Paths |-> IF p = playerlist_path THEN f ELSE Absent]
    /\ phase = "none"
    /\ path = ""
    /\ records = NoRecords
    /\ now = 0
    /\ ret = Ok("start", "")

Env == <<playerlist, config_dir>>

Call == /\ phase # "aborted"
        /\ now < MaxClock
        /\ now' = now + 1

\* mutant: a file that does not parse is treated like a missing one
LoadOrCreate_RecreateOnJson ==
    /\ Call
    /\ phase = "none"
    /\ LET l == load_from(playerlist_path, now) IN
       IF l.res.tag = "Ok"
       THEN /\ phase' = "live" /\ path' = l.path /\ records' = l.records
            /\ ret' = Ok("load_or_create", playerlist_path)
       ELSE IF l.res.kind = "Json" \/ l.res.io = "NotFound"
       THEN /\ phase' = "live" /\ path' = l.res.path /\ records' = NoRecords
            /\ ret' = Ok("load_or_create", playerlist_path)
       ELSE /\ phase' = "aborted" /\ UNCHANGED <<path, records>>
            /\ ret' = Panic("load_or_create", l.res.kind, l.res.path, l.res.io)
    /\ UNCHANGED <<Env, fs>>

\* mutant: the fresh store keeps the path of Self::default(), set_path is not called
LoadOrCreate_NoSetPath ==
    /\ Call
    /\ phase = "none"
    /\ LET l == load_from(playerlist_path, now) IN
       IF l.res.tag = "Ok"
       THEN /\ phase' = "live" /\ path' = l.path /\ records' = l.records
            /\ ret' = Ok("load_or_create", playerlist_path)
       ELSE IF l.res.kind = "IO" /\ l.res.io = "NotFound"
       THEN /\ phase' = "live" /\ records' = NoRecords
            /\ path' = (IF locate_playerlist_file # <<>>
                        THEN locate_playerlist_file[1] ELSE FileName)
            /\ ret' = Ok("load_or_create", playerlist_path)
       ELSE /\ phase' = "aborted" /\ UNCHANGED <<path, records>>
            /\ ret' = Panic("load_or_create", l.res.kind, l.res.path, l.res.io)
    /\ UNCHANGED <<Env, fs>>

\* mutant: the fresh store of a first run is saved at once
LoadOrCreate_WritesFile ==
    /\ Call
    /\ phase = "none"
    /\ LET l == load_from(playerlist_path, now) IN
       IF l.res.tag = "Ok"
       THEN /\ phase' = "live" /\ path' = l.path /\ records' = l.records
            /\ ret' = Ok("load_or_create", playerlist_path)
            /\ UNCHANGED fs
       ELSE IF l.res.kind = "Json"
       THEN /\ phase' = "aborted" /\ UNCHANGED <<path, records, fs>>
            /\ ret' = Panic("load_or_create", "Json", l.res.path, "")
       ELSE IF l.res.kind = "IO" /\ l.res.io = "NotFound"
       THEN /\ phase' = "live" /\ path' = l.res.path /\ records' = NoRecords
            /\ ret' = Ok("load_or_create", playerlist_path)
            /\ fs' = [fs EXCEPT ![l.res.path] = Json(SerializeStore(NoRecords))]
       ELSE /\ phase' = "aborted" /\ UNCHANGED <<path, records, fs>>
            /\ ret' = Panic("load_or_create", l.res.kind, l.res.path, l.res.io)
    /\ UNCHANGED Env

\* load_or_create(args)
LoadOrCreate ==
    /\ Call
    /\ phase = "none"
    /\ LET l == load_from(playerlist_path, now) IN
       IF l.res.tag = "Ok"
       THEN /\ phase' = "live" /\ path' = l.path /\ records' = l.records
            /\ ret' = Ok("load_or_create", playerlist_path)
       ELSE IF l.res.kind = "Json"
       THEN /\ phase' = "aborted" /\ UNCHANGED <<path, records>>
            /\ ret' = Panic("load_or_create", "Json", l.res.path, "")
       ELSE IF l.res.kind = "IO" /\ l.res.io = "NotFound"
       THEN \* Self::default() then set_path(path)
            /\ phase' = "live" /\ path' = l.res.path /\ records' = NoRecords
            /\ ret' = Ok("load_or_create", playerlist_path)
       ELSE /\ phase' = "aborted" /\ UNCHANGED <<path, records>>
            /\ ret' = Panic("load_or_create", l.res.kind, l.res.path, l.res.io)
    /\ UNCHANGED <<Env, fs>>

\* PlayerRecords::default()
Default ==
    /\ Call
    /\ phase = "none"
    /\ phase' = "live"
    /\ path' = (IF locate_playerlist_file # <<>> THEN locate_playerlist_file[1] ELSE FileName)
    /\ records' = NoRecords
    /\ ret' = Ok("default", "")
    /\ UNCHANGED <<Env, fs>>

\* the host calls load_from(p) and, when it is Ok, holds the store it returns
LoadFrom(p) ==
    /\ Call
    /\ LET l == load_from(p, now) IN
       /\ ret' = l.res
       /\ IF l.res.tag = "Ok"
          THEN phase' = "live" /\ path' = l.path /\ records' = l.records
          ELSE UNCHANGED <<phase, path, records>>
    /\ UNCHANGED <<Env, fs>>

\* mutant: save keeps the records of the file that the map does not hold
Save_Merge ==
    /\ Call
    /\ phase = "live"
    /\ IF write_error(path) # ""
       THEN /\ ret' = Err("save", "IO", path, write_error(path))
            /\ UNCHANGED fs
       ELSE /\ ret' = Ok("save", path)
            /\ LET new == SerializeStore(records).records
                   old == IF StoreParses(fs[path]) THEN fs[path].json[1].records ELSE new
               IN fs' = [fs EXCEPT ![path] =
                           Json([records |-> [k \in DOMAIN old \cup DOMAIN new |->
                                    IF k \in DOMAIN new THEN new[k] ELSE old[k]]])]
    /\ UNCHANGED <<Env, phase, path, records>>

\* save(&self)
Save ==
    /\ Call
    /\ phase = "live"
    /\ IF write_error(path) # ""
       THEN /\ ret' = Err("save", "IO", path, write_error(path))
            /\ UNCHANGED fs
       ELSE /\ ret' = Ok("save", path)
            /\ fs' = [fs EXCEPT ![path] = Json(SerializeStore(records))]
    /\ UNCHANGED <<Env, phase, path, records>>

\* mutant: the result of save is unwrapped, a failed save panics
SaveOk_Unwraps ==
    /\ Call
    /\ phase = "live"
    /\ IF write_error(path) # ""
       THEN /\ UNCHANGED fs
            /\ phase' = "aborted"
            /\ ret' = Panic("save_ok", "IO", path, write_error(path))
       ELSE /\ fs' = [fs EXCEPT ![path] = Json(SerializeStore(records))]
            /\ phase' = phase
            /\ ret' = Ok("save_ok", path)
    /\ UNCHANGED <<Env, path, records>>

\* save_ok(&self)
SaveOk ==
    /\ Call
    /\ phase = "live"
    /\ IF write_error(path) # ""
       THEN UNCHANGED fs
       ELSE fs' = [fs EXCEPT ![path] = Json(SerializeStore(records))]
    /\ ret' = Ok("save_ok", path)
    /\ UNCHANGED <<Env, phase, path, records>>

\* mutant: set_path also saves the map to the new path
SetPath_Saves(p) ==
    /\ Call
    /\ phase = "live"
    /\ path' = p
    /\ ret' = Ok("set_path", p)
    /\ fs' = [fs EXCEPT ![p] = IF write_error(p) # "" THEN @ ELSE Json(SerializeStore(records))]
    /\ UNCHANGED <<Env, phase, records>>

\* set_path(&mut self, p)
SetPath(p) ==
    /\ Call
    /\ phase = "live"
    /\ path' = p
    /\ ret' = Ok("set_path", p)
    /\ UNCHANGED <<Env, fs, phase, records>>

\* mutant: an unknown identifier gets a record (entry().or_default())
UpdateName_Creates(steamid, name) ==
    /\ Call
    /\ phase = "live"
    /\ records' = [i \in DOMAIN records \cup {steamid} |->
                     IF i # steamid THEN records[i]
                     ELSE IF i \in DOMAIN records
                     THEN [records[i] EXCEPT !.previous_names = push_name(@, name)]
                     ELSE [DefaultRecord(now) EXCEPT !.previous_names = <<name>>]]
    /\ ret' = Ok("update_name", "")
    /\ UNCHANGED <<Env, fs, phase, path>>

\* mutant: a renamed record is stamped as modified now
UpdateName_TouchesModified(steamid, name) ==
    /\ Call
    /\ phase = "live"
    /\ IF steamid \in DOMAIN records
       THEN records' = [records EXCEPT ![steamid].previous_names = push_name(@, name),
                                       ![steamid].modified = now]
       ELSE UNCHANGED records
    /\ ret' = Ok("update_name", "")
    /\ UNCHANGED <<Env, fs, phase, path>>

\* update_name(&mut self, steamid, name)
UpdateName(steamid, name) ==
    /\ Call
    /\ phase = "live"
    /\ IF steamid \in DOMAIN records
       THEN records' = [records EXCEPT ![steamid].previous_names = push_name(@, name)]
       ELSE UNCHANGED records
    /\ ret' = Ok("update_name", "")
    /\ UNCHANGED <<Env, fs, phase, path>>

\* DerefMut: HashMap::insert(steamid, record), the record a default one the host edited
Insert(steamid, e) ==
    /\ Call
    /\ phase = "live"
    /\ records' = [i \in DOMAIN records \cup {steamid} |->
                     IF i = steamid
                     THEN Record(e[2], e[1], e[3], now, now)
                     ELSE records[i]]
    /\ ret' = Ok("insert", "")
    /\ UNCHANGED <<Env, fs, phase, path>>

\* DerefMut: HashMap::remove(steamid)
Remove(steamid) ==
    /\ Call
    /\ phase = "live"
    /\ steamid \in DOMAIN records
    /\ records' = [i \in DOMAIN records \ {steamid} |-> records[i]]
    /\ ret' = Ok("remove", "")
    /\ UNCHANGED <<Env, fs, phase, path>>

\* the host reads records[steamid].is_empty()
IsEmpty(steamid) ==
    /\ Call
    /\ phase = "live"
    /\ steamid \in DOMAIN records
    /\ ret' = [Ok("is_empty", "") EXCEPT
                 !.tag = IF is_empty(records[steamid]) THEN "true" ELSE "false"]
    /\ UNCHANGED <<Env, fs, phase, path, records>>

Next ==
    \/ LoadOrCreate
    \/ Default
    \/ \E p \in Paths : LoadFrom(p)
    \/ Save
    \/ SaveOk
    \/ \E p \in Paths : SetPath(p)
    \/ \E i \in Ids, n \in Names : UpdateName(i, n)
    \/ \E i \in Ids, e \in HostEdits : Insert(i, e)
    \/ \E i \in Ids : Remove(i)

Spec == Init /\ [][Next]_vars

\* ------------------------------------------------------------------ data
\* A second specification for the claims about what is stored: the session
\* starts with a store holding any record (every verdict, every kind of
\* custom_data), or with a file holding any record object (every subset of the
\* fields), and the host saves, loads and reads is_empty.
NameLists == {<<>>, <<"alpha", "beta">>, <<"beta", "alpha">>}

DataRecords ==
    {Record(c, v, n, 0, 0) : c \in CustomValues, v \in Verdicts, n \in NameLists}

HostRecords == {Record(e[2], e[1], e[3], 0, 0) : e \in HostEdits}

DataMaps ==
    {[i \in D |-> IF i = 1 THEN r ELSE h] :
        D \in SUBSET Ids \ {{}}, r \in DataRecords, h \in HostRecords}

Restrict(o, S) == [f \in S |-> o[f]]

DataFiles ==
    {Json([records |-> [k \in {SerializeId(1)} |-> Restrict(o, S)]]) :
        o \in {SerializeRecord(r) : r \in DataRecords}, S \in SUBSET Fields}

InitData ==
    /\ playerlist = <<Override>>
    /\ config_dir = <<ConfigDir>>
    /\ now = 0
    /\ ret = Ok("start", "")
    /\ \/ /\ phase = "live"
          /\ path = Override
          /\ records \in DataMaps
          /\ fs = [p \in Paths |-> Absent]
       \/ /\ phase = "none"
          /\ path = ""
          /\ records = NoRecords
          /\ \E f \in DataFiles : fs = [p \in Paths |-> IF p = FileName THEN f ELSE Absent]

NextData ==
    \/ Save
    \/ \E p \in Paths : LoadFrom(p)
    \/ \E i \in Ids : IsEmpty(i)

SpecData == InitData /\ [][NextData]_vars

\* ------------------------------------------------------------------ shared files
\* A third specification for the claims about a file the store does not own
\* alone: another PlayerRecords instance (or an editor) saves its own map to a
\* path, and a file is moved from one path to another.
OtherMaps ==
    {NoRecords,
     [i \in {MaxId} |-> Record(Value("Array", 1), Trusted, <<"beta">>, 0, 0)]}

\* save(&self) of the other instance, bound to p and holding the map m
OtherSave(p, m) ==
    /\ Call
    /\ write_error(p) = ""
    /\ fs' = [fs EXCEPT ![p] = Json(SerializeStore(m))]
    /\ ret' = Ok("other_save", p)
    /\ UNCHANGED <<Env, phase, path, records>>

\* the file at a is moved to b
MoveFile(a, b) ==
    /\ Call
    /\ a # b
    /\ fs[a].kind # "absent"
    /\ fs[b].kind # "denied"
    /\ fs' = [fs EXCEPT ![b] = fs[a], ![a] = Absent]
    /\ ret' = Ok("rename", b)
    /\ UNCHANGED <<Env, phase, path, records>>

NextShared ==
    \/ Next
    \/ \E p \in Paths, m \in OtherMaps : OtherSave(p, m)
    \/ \E a \in Paths, b \in Paths : MoveFile(a, b)

SpecShared == Init /\ [][NextShared]_vars

\* ------------------------------------------------------------------ claims
\* a load_from(p) step that directly follows a successful save of a non-empty
\* map to p by the store bound to p
SaveThenLoad(p) ==
    /\ ret = Ok("save", p)
    /\ path = p
    /\ DOMAIN records # {}
    /\ LoadFrom(p)

\* C1 as stated: a successful save followed by load_from of the same path yields
\* the same identifiers and, for each, the same verdict, the same previous_names
\* in the same order and the same custom_data, whatever custom_data the host stored.
C1_RoundTripAnyCustomData ==
    [][\A p \in Paths : SaveThenLoad(p) =>
          /\ ret'.tag = "Ok"
          /\ DOMAIN records' = DOMAIN records
          /\ \A i \in DOMAIN records :
                /\ records'[i].verdict = records[i].verdict
                /\ records'[i].previous_names = records[i].previous_names
                /\ records'[i].custom_data = records[i].custom_data]_vars

\* C1 amended: a successful save followed by load_from of the same path yields
\* the same identifiers and, for each, the same verdict, the same previous_names
\* in the same order, and the same custom_data when the saved custom_data is not
\* null; a record saved with a null custom_data is loaded with an empty object.
C1_RoundTrip ==
    [][\A p \in Paths : SaveThenLoad(p) =>
          /\ ret'.tag = "Ok"
          /\ DOMAIN records' = DOMAIN records
          /\ \A i \in DOMAIN records :
                /\ records'[i].verdict = records[i].verdict
                /\ records'[i].previous_names = records[i].previous_names
                /\ records'[i].custom_data =
                      (IF records[i].custom_data = Null
                       THEN EmptyObject
                       ELSE records[i].custom_data)]_vars

\* C1 witness: a store loaded back from the file its own save wrote (under
\* SpecData no file exists at Override until the store bound to it saves),
\* holding a Cheater record with two names in order and a non-empty object.
C1_Witness ==
    /\ ret = Ok("load_from", Override)
    /\ path = Override
    /\ fs[Override] = Json(SerializeStore(records))
    /\ \E i \in DOMAIN records :
          /\ records[i].verdict = Cheater
          /\ records[i].previous_names = <<"alpha", "beta">>
          /\ records[i].custom_data = Value("Object", 1)

\* files that exist at a path and that load_from cannot turn into a store
Unloadable == {Denied, NotUtf8, NotJson, BadVerdictFile, NoRecordsFieldFile}

\* C2: when the load of the resolved path fails for any reason other than the
\* file not existing, load_or_create aborts the process and returns no store;
\* once aborted nothing more happens, so the unloadable file is never saved over.
C2_AbortsOnUnloadableFile ==
    [][/\ (ret'.op = "load_or_create" /\ fs[playerlist_path] \in Unloadable) =>
             /\ phase' = "aborted"
             /\ ret'.tag = "Panic"
             /\ records' = records
             /\ fs' = fs
       /\ phase = "aborted" => (phase' = "aborted" /\ fs' = fs)]_vars

\* C2 witness: the process aborted at startup on a file whose content is malformed.
C2_Witness ==
    /\ phase = "aborted"
    /\ ret.op = "load_or_create"
    /\ ret.kind = "Json"
    /\ fs[playerlist_path] = BadVerdictFile

\* the JSON document of a store with no records
EmptyDocument(f) ==
    /\ f.kind = "text"
    /\ f.json # <<>>
    /\ DOMAIN f.json[1] = {"records"}
    /\ DOMAIN f.json[1].records = {}

\* C3: when the resolved path does not exist, load_or_create returns normally a
\* store with zero records bound to the resolved path, and the save that follows
\* creates the file at exactly that path.
C3_FirstRun ==
    [][/\ (ret'.op = "load_or_create" /\ fs[playerlist_path] = Absent) =>
             /\ phase' = "live"
             /\ ret'.tag = "Ok"
             /\ DOMAIN records' = {}
             /\ path' = playerlist_path
       /\ (ret.op = "load_or_create" /\ fs[playerlist_path] = Absent /\ ret'.op = "save") =>
             /\ ret'.tag = "Ok"
             /\ EmptyDocument(fs'[playerlist_path])
             /\ \A q \in Paths \ {playerlist_path} : fs'[q] = fs[q]]_vars

\* C3 witness: load_or_create has returned a fresh store on a first run with an
\* override path, which is not the path default construction resolves.
C3_Witness ==
    /\ ret = Ok("load_or_create", Override)
    /\ phase = "live"
    /\ fs[Override] = Absent
    /\ path = Override
    /\ DOMAIN records = {}

\* identifiers whose record holds a null custom_data, in memory and in a file
NullIds(recs) == {i \in DOMAIN recs : recs[i].custom_data = Null}

NullKeys(f) ==
    {k \in DOMAIN f.json[1].records :
        /\ "custom_data" \in DOMAIN f.json[1].records[k]
        /\ f.json[1].records[k].custom_data = Null}

\* C4 as stated: no record in memory has a null custom_data, the host's keyed
\* inserts included, and no file written by save holds a null custom_data.
C4_NeverNull ==
    /\ NullIds(records) = {}
    /\ (ret.op = "save" /\ ret.tag = "Ok") => NullKeys(fs[ret.path]) = {}

\* C4 amended: a null custom_data enters memory only by the host's keyed insert
\* of a record that holds one: default construction and a successful load_from
\* or load_or_create yield a store with no null custom_data, no other operation
\* adds one, and save writes a null custom_data exactly for the records that
\* hold one in memory.
C4_NullOnlyByInsert ==
    [][/\ (ret'.op \in {"default", "load_from", "load_or_create"} /\ ret'.tag = "Ok") =>
             NullIds(records') = {}
       /\ ret'.op # "insert" => NullIds(records') \subseteq NullIds(records)
       /\ (ret'.op = "save" /\ ret'.tag = "Ok") =>
             NullKeys(fs'[path]) = {ToString(i) : i \in NullIds(records)}]_vars

\* C4 witness: a store loaded from a file in which a record's custom_data is null.
C4_Witness ==
    /\ ret.op \in {"load_from", "load_or_create"}
    /\ ret.tag = "Ok"
    /\ fs[path] = LegacyFile
    /\ NullKeys(fs[path]) # {}
    /\ \A i \in DOMAIN records : records[i].custom_data = EmptyObject

Count(names, name) == Cardinality({k \in 1..Len(names) : names[k] = name})

\* C5: update_name on an identifier that has a record leaves the list unchanged
\* when the name is in it, and otherwise appends the name as the last element
\* with the existing entries in their order; it never adds a second occurrence,
\* and afterwards the name is in the list (so a repeated call changes nothing).
C5_UpdateNameAppendsOnce ==
    [][\A i \in Ids, n \in Names : (UpdateName(i, n) /\ i \in DOMAIN records) =>
          LET old == records[i].previous_names
              new == records'[i].previous_names
          IN /\ Count(old, n) > 0 => new = old
             /\ Count(old, n) = 0 =>
                   /\ Len(new) = Len(old) + 1
                   /\ new[Len(new)] = n
                   /\ \A k \in 1..Len(old) : new[k] = old[k]
             /\ Count(new, n) = (IF Count(old, n) = 0 THEN 1 ELSE Count(old, n))]_vars

\* C5 witness: the spec's example, a Cheater record with names ["alpha"] after
\* update_name "beta".
C5_Witness ==
    /\ ret.op = "update_name"
    /\ \E i \in DOMAIN records :
          /\ records[i].verdict = Cheater
          /\ records[i].custom_data = Value("Object", 1)
          /\ records[i].previous_names = <<"alpha", "beta">>

\* C6: update_name on an identifier with no record returns normally, creates no
\* record and leaves the whole map unchanged.
C6_UpdateNameUnknownId ==
    [][\A i \in Ids, n \in Names : (UpdateName(i, n) /\ i \notin DOMAIN records) =>
          /\ ret'.tag = "Ok"
          /\ phase' = "live"
          /\ records' = records]_vars

\* C6 witness: update_name has returned on a store that holds no record at all.
C6_Witness ==
    /\ ret.op = "update_name"
    /\ phase = "live"
    /\ DOMAIN records = {}

\* the record object a successful load_from(p) read for identifier i
FileRecord(p, i) == fs[p].json[1].records[ToString(i)]

\* a field the file gives is the field the loaded record holds
AsInFile(o, r) ==
    /\ "verdict" \in DOMAIN o => VariantNames[r.verdict + 1] = o.verdict
    /\ "previous_names" \in DOMAIN o => r.previous_names = o.previous_names
    /\ "modified" \in DOMAIN o => ToString(r.modified) = o.modified
    /\ "created" \in DOMAIN o => ToString(r.created) = o.created

\* C7: after a successful load_from every record whose custom_data is absent or
\* null in the file holds an empty object, every other custom_data and every
\* other field the file gives is as in the file; saving the loaded store and
\* loading it back yields the same store again.
C7_NormalizationFixedPoint ==
    [][\A p \in Paths :
          /\ (LoadFrom(p) /\ ret'.tag = "Ok") =>
                /\ DOMAIN records' = {i \in Ids : ToString(i) \in DOMAIN fs[p].json[1].records}
                /\ \A i \in DOMAIN records' :
                      LET o == FileRecord(p, i)
                          absent_or_null ==
                              "custom_data" \notin DOMAIN o \/ o.custom_data = Null
                      IN /\ absent_or_null => records'[i].custom_data = EmptyObject
                         /\ ~absent_or_null => records'[i].custom_data = o.custom_data
                         /\ AsInFile(o, records'[i])
          /\ (SaveThenLoad(p) /\ ret.op = "save" /\ NullIds(records) = {}) =>
                /\ ret'.tag = "Ok"
                /\ records' = records
                /\ path' = path]_vars

\* C7 witness: a store loaded from a file whose record has a null custom_data
\* and a non-neutral verdict; the record holds an empty object.
C7_Witness ==
    /\ ret = Ok("load_from", FileName)
    /\ "custom_data" \in DOMAIN FileRecord(FileName, 1)
    /\ FileRecord(FileName, 1).custom_data = Null
    /\ "verdict" \in DOMAIN FileRecord(FileName, 1)
    /\ records[1].custom_data = EmptyObject
    /\ records[1].verdict = Trusted

\* C8 as stated: load_from of a path that does not exist fails with the I/O kind
\* marked not-found, load_from of a path whose content is not valid structured
\* data fails with the format kind, each failure carries the path, and no store
\* is produced.
C8_NotStructuredIsFormat ==
    [][\A p \in Paths : LoadFrom(p) =>
          /\ fs[p] = Absent =>
                /\ ret' = Err("load_from", "IO", p, "NotFound")
                /\ UNCHANGED <<phase, path, records>>
          /\ fs[p] \in {NotUtf8, NotJson, BadVerdictFile, NoRecordsFieldFile} =>
                /\ ret' = Err("load_from", "Json", p, "")
                /\ UNCHANGED <<phase, path, records>>]_vars

\* C8 amended: load_from of a path that does not exist fails with the I/O kind
\* marked not-found; load_from of a path whose content is UTF-8 text that is not
\* valid structured data fails with the format kind, and of a path whose content
\* is not UTF-8 text with the I/O kind marked invalid-data; the failures are
\* distinguishable, each carries the path, and no store is produced.
C8_LoadFromFailureKinds ==
    [][\A p \in Paths : LoadFrom(p) =>
          /\ fs[p] = Absent =>
                /\ ret' = Err("load_from", "IO", p, "NotFound")
                /\ UNCHANGED <<phase, path, records>>
          /\ fs[p] \in {NotJson, BadVerdictFile, NoRecordsFieldFile} =>
                /\ ret' = Err("load_from", "Json", p, "")
                /\ UNCHANGED <<phase, path, records>>
          /\ fs[p] = NotUtf8 =>
                /\ ret' = Err("load_from", "IO", p, "InvalidData")
                /\ UNCHANGED <<phase, path, records>>]_vars

\* C8 witness: load_from has failed with the format kind on a file that is no
\* JSON, and the host holds no store.
C8_Witness ==
    /\ ret = Err("load_from", "Json", playerlist_path, "")
    /\ fs[playerlist_path] = NotJson
    /\ phase = "none"

EmptyValues ==
    {Null, Value("Object", 0), Value("Array", 0), Value("String", 0)}

\* C9: is_empty is true exactly when the verdict is Player and custom_data is
\* null, an empty object, an empty array or an empty string, whatever the
\* previous_names; it is true for a default-constructed record.
C9_IsEmpty ==
    [][\A i \in Ids : IsEmpty(i) =>
          /\ ret'.tag = "true" <=>
                (records[i].verdict = Player /\ records[i].custom_data \in EmptyValues)
          /\ records[i] = DefaultRecord(records[i].created) => ret'.tag = "true"
          /\ records[i].verdict \in {Bot, Suspicious, Cheater, Trusted} => ret'.tag = "false"
          /\ records[i].custom_data \in
                {Value("Object", 1), Value("Array", 1), Value("String", 1)} =>
                ret'.tag = "false"]_vars

\* C9 witness: is_empty has answered true for a default-constructed record.
C9_Witness ==
    /\ ret.op = "is_empty"
    /\ ret.tag = "true"
    /\ DOMAIN records = {1}
    /\ records[1] = DefaultRecord(0)

\* the file holds exactly the records recs, every field written
FileHolds(f, recs) ==
    /\ f.kind = "text"
    /\ f.json # <<>>
    /\ DOMAIN f.json[1] = {"records"}
    /\ DOMAIN f.json[1].records = {ToString(i) : i \in DOMAIN recs}
    /\ \A i \in DOMAIN recs :
          LET o == f.json[1].records[ToString(i)] IN
          /\ DOMAIN o = Fields
          /\ o.custom_data = recs[i].custom_data
          /\ AsInFile(o, recs[i])

\* C10: a successful save leaves at the bound path a file that holds exactly
\* the in-memory records, whatever the file held before, and leaves every other
\* file alone; save of a store with zero records succeeds wherever the file can
\* be written, and load_from reads its file back as a store with zero records.
C10_SaveReplacesFile ==
    [][/\ (ret'.op = "save" /\ ret'.tag = "Ok") =>
             /\ FileHolds(fs'[path], records)
             /\ \A q \in Paths \ {path} : fs'[q] = fs[q]
       /\ (ret'.op = "save" /\ DOMAIN records = {} /\ fs[path] # Denied) =>
             /\ ret'.tag = "Ok"
             /\ EmptyDocument(fs'[path])
       /\ \A p \in Paths :
             (ret = Ok("save", p) /\ path = p /\ DOMAIN records = {} /\ LoadFrom(p)) =>
                /\ ret'.tag = "Ok"
                /\ DOMAIN records' = {}
                /\ path' = p]_vars

\* C10 witness: the store loaded the two records of the legacy file (the only
\* source of a record created at 0), the host removed one, and save wrote the
\* file again: it holds the one record left.
C10_Witness ==
    /\ now = 3
    /\ ret = Ok("save", playerlist_path)
    /\ path = playerlist_path
    /\ DOMAIN records = {1}
    /\ records[1].created = 0
    /\ DOMAIN fs[path].json[1].records = {ToString(1)}

\* C11: save_ok returns normally whether the save under it fails or not; when
\* it fails (the file cannot be written) the map, the bound path and every file
\* are as before the call, so later calls see the store they would have seen
\* without it; when it succeeds the file is the one save writes.
C11_SaveOkSwallowsFailure ==
    [][ret'.op = "save_ok" =>
          /\ ret'.tag = "Ok"
          /\ phase' = "live"
          /\ records' = records
          /\ path' = path
          /\ fs[path] = Denied => fs' = fs
          /\ fs[path] # Denied =>
                /\ FileHolds(fs'[path], records)
                /\ \A q \in Paths \ {path} : fs'[q] = fs[q]]_vars

\* C11 witness: save_ok has returned on a store bound to a file that cannot be
\* written; the store is live and the file is as it was.
C11_Witness ==
    /\ ret = Ok("save_ok", path)
    /\ phase = "live"
    /\ fs[path] = Denied

\* the keys of the JSON document at p, as identifiers
FileIds(p) == {i \in Ids : ToString(i) \in DOMAIN fs[p].json[1].records}

\* C12: the store and another writer of the same file are not reconciled: a
\* successful save, the store's or the other's, leaves exactly the saver's map
\* in the file (what only the earlier saver held is no longer there, and the
\* other's save changes nothing in the store's memory), and a successful load
\* yields exactly the records of the file as it is then, nothing of the map
\* held before.
C12_LastSaveWins ==
    [][/\ (ret'.op = "save" /\ ret'.tag = "Ok") => FileHolds(fs'[path], records)
       /\ ret'.op = "other_save" =>
             /\ \A m \in OtherMaps : OtherSave(ret'.path, m) => FileHolds(fs'[ret'.path], m)
             /\ \A q \in Paths \ {ret'.path} : fs'[q] = fs[q]
             /\ records' = records
             /\ path' = path
       /\ (ret'.op = "load_from" /\ ret'.tag = "Ok") =>
             /\ DOMAIN records' = FileIds(ret'.path)
             /\ \A i \in DOMAIN records' :
                   LET o == FileRecord(ret'.path, i) IN
                   /\ AsInFile(o, records'[i])
                   /\ ("custom_data" \in DOMAIN o /\ o.custom_data # Null) =>
                         records'[i].custom_data = o.custom_data]_vars

\* C12 witness: the other writer saved last to the path the store is bound to;
\* the store holds a record that the file does not.
C12_Witness ==
    /\ ret = Ok("other_save", path)
    /\ phase = "live"
    /\ \E m \in OtherMaps : fs[path] = Json(SerializeStore(m))
    /\ \E i \in DOMAIN records : i \notin FileIds(path)

\* C13: update_name changes at most the previous_names of the record it
\* addresses: that record's modified, created, verdict and custom_data, every
\* other record, the set of keys, the bound path and the files stay as they were.
C13_UpdateNameFrame ==
    [][\A s \in Ids, n \in Names : UpdateName(s, n) =>
          /\ DOMAIN records' = DOMAIN records
          /\ \A i \in DOMAIN records :
                /\ i # s => records'[i] = records[i]
                /\ records'[i].modified = records[i].modified
                /\ records'[i].created = records[i].created
                /\ records'[i].verdict = records[i].verdict
                /\ records'[i].custom_data = records[i].custom_data
          /\ path' = path
          /\ fs' = fs
          /\ phase' = phase]_vars

\* C13 witness: a name was added, later than the record was last stamped, to a
\* record that carries a verdict and custom data, next to another record.
C13_Witness ==
    /\ ret.op = "update_name"
    /\ now = MaxClock
    /\ \E i \in DOMAIN records :
          /\ records[i].previous_names = <<"alpha", "beta">>
          /\ records[i].modified < now - 1
          /\ records[i].verdict = Cheater
          /\ DOMAIN records # {i}

\* a list without a repeated entry
NoDuplicate(names) == \A j, k \in 1..Len(names) : names[j] = names[k] => j = k

\* one list continues the other
IsPrefix(old, new) == Len(old) <= Len(new) /\ \A k \in 1..Len(old) : new[k] = old[k]

\* C14: over update_name, set_path, save and save_ok the store only grows: no
\* identifier is removed, every previous_names list is continued by the list
\* after the call, and a list without duplicates stays without duplicates.
C14_AppendOnly ==
    [][ret'.op \in {"update_name", "set_path", "save", "save_ok"} =>
          /\ DOMAIN records \subseteq DOMAIN records'
          /\ \A i \in DOMAIN records :
                /\ IsPrefix(records[i].previous_names, records'[i].previous_names)
                /\ NoDuplicate(records[i].previous_names) =>
                      NoDuplicate(records'[i].previous_names)]_vars

\* C14 witness: update_name appended a name to the list of a record the host
\* had inserted, and the record is still held.
C14_Witness ==
    /\ ret.op = "update_name"
    /\ \E i \in DOMAIN records :
          /\ records[i].previous_names = <<"beta">>
          /\ records[i].verdict = Player
          /\ records[i].custom_data = Value("Array", 1)

\* C15: a record's created timestamp never changes: over update_name,
\* set_path, save, save_ok and a successful load_from of the backing file
\* whose record either carries the created value the store holds or has no
\* created field, the record is kept and its created value is the one it had.
C15_CreatedSetOnce ==
    [][\A i \in DOMAIN records :
          (\/ ret'.op \in {"update_name", "set_path", "save", "save_ok"}
           \/ /\ LoadFrom(path)
              /\ ret'.tag = "Ok"
              /\ i \in FileIds(path)
              /\ "created" \in DOMAIN FileRecord(path, i) =>
                    DeserializeDate(FileRecord(path, i).created) = records[i].created)
          => /\ i \in DOMAIN records'
             /\ records'[i].created = records[i].created]_vars

\* C16: set_path changes only the bound path: the map, every file and the
\* store's life are as before; the save that follows is made to the new path,
\* and when it succeeds the file there holds the map and every other file, the
\* one at the path bound before among them, is as it was.
C16_SetPathOnlyRebinds ==
    [][/\ \A p \in Paths : SetPath(p) =>
             /\ path' = p
             /\ records' = records
             /\ fs' = fs
             /\ phase' = phase
       /\ (ret.op = "set_path" /\ ret'.op = "save") =>
             /\ ret'.path = ret.path
             /\ ret'.tag = "Ok" =>
                   /\ FileHolds(fs'[ret.path], records)
                   /\ \A q \in Paths \ {ret.path} : fs'[q] = fs[q]]_vars

\* C16 witness: the store loaded the legacy file, was bound to another path and
\* saved: the new path holds the map, the legacy file is still what it was.
C16_Witness ==
    /\ ret = Ok("save", path)
    /\ path # playerlist_path
    /\ fs[playerlist_path] = LegacyFile
    /\ DOMAIN records = Ids
    /\ FileHolds(fs[path], records)

\* the path of the startup rules: the override, else the locator's directory
\* with the fixed file name, else the file name alone
Resolved ==
    IF playerlist # <<>> THEN playerlist[1]
    ELSE IF config_dir # <<>> THEN config_dir[1] \o "/playerlist.json"
    ELSE "playerlist.json"

\* C17: load_or_create works on the override when one is given, else on the
\* locator's directory joined with playerlist.json, else on playerlist.json;
\* it aborts only when the file at that path cannot be loaded, never because
\* the locator failed, and the store it returns is bound to that path.
C17_PathResolution ==
    [][ret'.op = "load_or_create" =>
          /\ ret'.path = Resolved
          /\ ret'.tag \in {"Ok", "Panic"}
          /\ ret'.tag = "Panic" <=> fs[Resolved] \in Unloadable
          /\ ret'.tag = "Ok" => phase' = "live" /\ path' = Resolved]_vars

\* C17 witness: without an override and with the locator failing, load_or_create
\* loaded the legacy file from the relative file name and is bound to it.
C17_Witness ==
    /\ ret = Ok("load_or_create", "playerlist.json")
    /\ playerlist = <<>>
    /\ config_dir = <<>>
    /\ phase = "live"
    /\ path = "playerlist.json"
    /\ DOMAIN records = Ids

\* C18: the bound path is not in the file: a file save wrote has the one field
\* records and is the same as any file that holds the same map, wherever that
\* is; a successful load_from(p) binds the store to p, and the save that follows
\* it is made to p, so a file moved to p is from then on kept at p.
C18_PathNotPersisted ==
    [][/\ (ret'.op = "save" /\ ret'.tag = "Ok") =>
             /\ DOMAIN fs'[path].json[1] = {"records"}
             /\ \A q \in Paths : FileHolds(fs[q], records) => fs'[path] = fs[q]
       /\ \A p \in Paths : ret' = Ok("load_from", p) => path' = p
       /\ (ret.op = "load_from" /\ ret.tag = "Ok" /\ ret'.op = "save") =>
             /\ ret'.path = ret.path
             /\ ret'.tag = "Ok" =>
                   /\ FileHolds(fs'[ret.path], records)
                   /\ \A q \in Paths \ {ret.path} : fs'[q] = fs[q]]_vars

\* C18 witness: the legacy file was moved from the resolved path to another,
\* loaded from there and saved: the save was made where the file now is, and
\* there is still no file where it was.
C18_Witness ==
    /\ now = MaxClock
    /\ ret = Ok("save", path)
    /\ path # playerlist_path
    /\ fs[playerlist_path] = Absent
    /\ DOMAIN records = Ids
    /\ records[1].created = 0
    /\ FileHolds(fs[path], records)

\* C19: only save and save_ok write files: every other call leaves every file
\* as it was, so the file a first run did not find is still not there after
\* load_or_create has returned the fresh store.
C19_OnlySaveWrites ==
    [][/\ ret'.op \notin {"save", "save_ok"} => fs' = fs
       /\ (ret'.op = "load_or_create" /\ fs[Resolved] = Absent) =>
             \A q \in Paths : fs'[q] = Absent]_vars

\* C19 witness: after a first run on the override path (which only
\* load_or_create binds within three calls) the host inserted a record and
\* update_name added a name to it, and there is still no file at any path.
C19_Witness ==
    /\ now = MaxClock
    /\ ret.op = "update_name"
    /\ phase = "live"
    /\ playerlist = <<Override>>
    /\ path = Override
    /\ \E i \in DOMAIN records : records[i].previous_names = <<"alpha", "beta">>
    /\ \A q \in Paths : fs[q] = Absent

====
